---- MODULE Spec2Model ----
(***************************************************************************)
(* The scheduled-posts job (jobs/scheduledPosts: startScheduledPostsJob,   *)
(* processScheduledPost) together with the executor it calls               *)
(* (AutopilotService.executeScheduledPost) over the ScheduledPost table.   *)
(*                                                                         *)
(* Every await of the source is a step boundary: a cron callback is a      *)
(* process with a program counter, and node-cron starts a callback on      *)
(* every matching minute whether or not the previous one has returned.     *)
(***************************************************************************)
EXTENDS Integers, Sequences, FiniteSets, TLC

\* ------------------------------------------------------------- bounds
NumJobs == 2
MaxTime == 1

\* ------------------------------------------------- program constants
MAX_RETRIES == 3
BatchLimit == 10

Jobs == 1..NumJobs
Times == 0..MaxTime
\* the cron callbacks that can be running at the same moment
Ticks == {1, 2}

None == "none"
StoreErrMsg == "store error"
ReadErrMsg == "store read error"
FbErrMsg == "Facebook API error"
CfgErrMsg == "Account not properly configured"
ExecErrPrefix == "Failed to execute scheduled post: "
FbContentId == "fb-id"

VARIABLES
    db,             \* the ScheduledPost table: job id -> row
    now,            \* the clock
    pc,             \* per cron callback: where it is
    batch,          \* per cron callback: the fetched instances not yet processed
    cur,            \* per cron callback: the instance processScheduledPost works on
    xpost,          \* per cron callback: the instance executeScheduledPost loaded
    err,            \* per cron callback: the error being handled
    result,         \* how the processScheduledPost call that ended in the last step ended
    hist,           \* per job: the writes and executor outcomes so far (history)
    published,      \* per job: successful FacebookService.publishPost calls (history)
    open,           \* per job: a 'processing' write of the job has no later write (history)
    terminalSeen,   \* per job: it has been failed with retryCount = MAX_RETRIES (history)
    done,           \* per cron callback: how the earlier calls of its loop ended (history)
    slept,          \* per cron callback: the backoff its call in progress has slept (history)
    retry,          \* a retryWithBackoff call: its arguments, its locals, its outcome
    backoff,        \* a calculateExponentialBackoff call: its arguments and its result
    query,          \* one cron callback seen from its query: the rows, the posts, the calls
    server,         \* startServer: where it is, what it has started, the exit code
    env             \* what the environment may do in this run

\* the variables of the scheduled-posts job, and those of utils/retry
jobVars == <<db, now, pc, batch, cur, xpost, err, result, hist, published, open,
             terminalSeen, done, slept, env>>
utilVars == <<retry, backoff, query, server>>
vars == <<jobVars, utilVars>>

\* ------------------------------------------------------ metadata (JSON)
NullMeta == [null |-> TRUE]
EmptyMeta == [k \in {} |-> TRUE]
IsNull(m) == "null" \in DOMAIN m
HasKey(m, k) == ~IsNull(m) /\ k \in DOMAIN m

\* a write-back that starts from empty metadata
SpreadNothing(m) == EmptyMeta

\* { ...post.metadata }: spreading null gives no keys
Spread(m) == IF IsNull(m) THEN EmptyMeta ELSE m

\* post.metadata?.retryCount || 0
RetryCountOf(m) == IF HasKey(m, "retryCount") THEN m.retryCount ELSE 0

\* metadata at creation (scheduleAutoPosts)
CreatedMeta == [trendId |-> "trend", predictedScore |-> "score"]

NoPost == [id |-> 0]
\* no timestamp (null)
NoTime == 0 - 1

\* How a processScheduledPost call of callback t ended.
NoResult == [kind |-> None]
\* the call has not slept
NoSleep == 0 - 1
\* the callback's outer catch logged 'Scheduled posts job error' (findAll rejected)
FetchFailed(t) == [kind |-> "caught", by |-> t]
\* it returned (after 'Successfully published scheduled post')
Returned(t, j) == [kind |-> "returned", by |-> t, postId |-> j]
\* an error that carries the retry count the attempt started with
ThrewWithOldRetryCount(t, j, rc) ==
    [kind |-> "threw", by |-> t, error |-> "ScheduledPostError", postId |-> j,
     retryCount |-> rc - 1]
\* throw new ScheduledPostError(message, post.id, newRetryCount, error)
ThrewScheduledPostError(t, j, rc) ==
    [kind |-> "threw", by |-> t, error |-> "ScheduledPostError", postId |-> j,
     retryCount |-> rc]
\* the rejection of the catch block's own post.save()
ThrewStoreError(t, j) ==
    [kind |-> "threw", by |-> t, error |-> "StoreError", postId |-> j]

\* ------------------------------------------------------------ the query
\* the where clause without its scheduledFor condition
EligibleAnyTime(row, t) ==
    \/ row.status = "pending"
    \/ /\ row.status = "failed"
       /\ \/ IsNull(row.metadata)
          \/ /\ HasKey(row.metadata, "retryCount")
             /\ row.metadata.retryCount < MAX_RETRIES

\* the where clause of the findAll in the cron callback
Eligible(row, t) ==
    /\ row.scheduledFor <= t
    /\ \/ row.status = "pending"
       \/ /\ row.status = "failed"
          /\ \/ IsNull(row.metadata)
             \/ /\ HasKey(row.metadata, "retryCount")
                /\ row.metadata.retryCount < MAX_RETRIES

EligibleJobs(table, t) == {j \in DOMAIN table : Eligible(table[j], t)}

Min(a, b) == IF a < b THEN a ELSE b

\* the instance findAll builds from a row; late (history): the job had been
\* failed with retryCount = MAX_RETRIES before this fetch
Instance(table, j) ==
    [id |-> j, status |-> table[j].status, metadata |-> table[j].metadata,
     late |-> terminalSeen[j]]

\* a query without a limit
NoLimit(rows, limit) == rows

\* limit: the first rows of the matching rows, as many as the limit allows
Limit(rows, limit) == SubSeq(rows, 1, Min(limit, Len(rows)))

\* the orders in which the store can present the rows S
Orderings(S) ==
    LET n == Cardinality(S)
    IN  {s \in [1..n -> S] : \A a, b \in 1..n : a # b => s[a] # s[b]}

\* findAll({where, limit: 10}): no order is requested, so the store may return
\* any min(limit, #eligible) eligible rows in any order
FindAll(table, t) ==
    {LET rows == Limit(s, BatchLimit)
     IN  [i \in DOMAIN rows |-> Instance(table, rows[i])] :
        s \in Orderings(EligibleJobs(table, t))}

\* ------------------------------------------------------ the environment
\* env.faults: "none" (the store never fails), "reads" (findAll and findByPk
\* may reject), "saves" (save may reject)
SaveOutcomes == IF env.faults = "saves" THEN {TRUE, FALSE} ELSE {TRUE}
ReadOutcomes == IF env.faults = "reads" THEN {TRUE, FALSE} ELSE {TRUE}

\* The history of a job: the (status, retryCount) values the job has in the
\* table after each save of processScheduledPost and how the executeScheduledPost calls for it ended, each
\* kept up to the length the retry cycle can give it and one write more, in
\* the runs where every save succeeds.
WritesKept == 2 * MAX_RETRIES + 1
ExecsKept == MAX_RETRIES
NoHist == [writes |-> <<>>, execs |-> <<>>]
Keep(seq, e, n) == IF Len(seq) < n THEN Append(seq, e) ELSE seq
Kept == env.faults # "saves"
LogWrite(j, status, rc) ==
    IF Kept THEN [hist EXCEPT ![j].writes = Keep(@, <<status, rc>>, WritesKept)]
    ELSE hist
LogExec(j, outcome) ==
    IF Kept THEN [hist EXCEPT ![j].execs = Keep(@, outcome, ExecsKept)]
    ELSE hist

\* if (retryCount > 0): the call starts with a backoff sleep
SleepsFirst(retryCount) == retryCount > 0

\* a backoff computed from the retry count itself
BackoffAttemptSame(retryCount) == retryCount

\* calculateExponentialBackoff(retryCount - 1): the attempt index passed, with
\* the default baseDelay and maxDelay
BackoffAttempt(retryCount) == retryCount - 1

\* a loop that does not move on to the next post
ProceedRepeating(t, posts) ==
    IF posts = <<>>
    THEN /\ pc' = [pc EXCEPT ![t] = "idle"]
         /\ cur' = [cur EXCEPT ![t] = NoPost]
         /\ batch' = [batch EXCEPT ![t] = <<>>]
         /\ slept' = [slept EXCEPT ![t] = NoSleep]
    ELSE LET post == Head(posts)
             retryCount == RetryCountOf(post.metadata)
         IN  /\ cur' = [cur EXCEPT ![t] =
                     [id |-> post.id, status |-> post.status,
                      metadata |-> post.metadata, late |-> post.late,
                      retryCount |-> retryCount]]
             /\ batch' = [batch EXCEPT ![t] = posts]
             /\ pc' = [pc EXCEPT ![t] =
                     IF SleepsFirst(retryCount) THEN "sleep" ELSE "mark"]
             /\ slept' = [slept EXCEPT ![t] = NoSleep]

\* for (const post of posts): the loop goes on with the posts left, up to the
\* first await of processScheduledPost, or the callback returns
Proceed(t, posts) ==
    IF posts = <<>>
    THEN /\ pc' = [pc EXCEPT ![t] = "idle"]
         /\ cur' = [cur EXCEPT ![t] = NoPost]
         /\ batch' = [batch EXCEPT ![t] = <<>>]
         /\ slept' = [slept EXCEPT ![t] = NoSleep]
    ELSE LET post == Head(posts)
             retryCount == RetryCountOf(post.metadata)
         IN  /\ cur' = [cur EXCEPT ![t] =
                     [id |-> post.id, status |-> post.status,
                      metadata |-> post.metadata, late |-> post.late,
                      retryCount |-> retryCount]]
             /\ batch' = [batch EXCEPT ![t] = Tail(posts)]
             /\ pc' = [pc EXCEPT ![t] =
                     IF SleepsFirst(retryCount) THEN "sleep" ELSE "mark"]
             /\ slept' = [slept EXCEPT ![t] = NoSleep]

\* ----------------------------------------------------------------- Init
InitRow ==
    [status : {"pending"},
     scheduledFor : Times,
     configured : BOOLEAN,
     metadata : {NullMeta, CreatedMeta, [retryCount |-> 0] @@ CreatedMeta},
     errorMessage : {None},
     publishedContentId : {None},
     publishedAt : {NoTime}]

Environments == [overlap : BOOLEAN, faults : {"none", "reads", "saves"}]

\* The table holds one post in the runs where saves may fail and in the runs
\* where callbacks overlap and reads may fail, and NumJobs posts in the others.
Harsh(e) == e.faults = "saves" \/ (e.overlap /\ e.faults # "none")
TableIds(e) == IF Harsh(e) THEN {1} ELSE Jobs

\* no retryWithBackoff call, no calculateExponentialBackoff call
NoRetry == [pc |-> "none"]
NoBackoff == [pc |-> "none"]
NoQuery == [pc |-> "none"]
NoServer == [pc |-> "none"]

\* no cron callback has run yet
JobIdle ==
    /\ now = 0
    /\ pc = [t \in Ticks |-> "idle"]
    /\ batch = [t \in Ticks |-> <<>>]
    /\ cur = [t \in Ticks |-> NoPost]
    /\ xpost = [t \in Ticks |-> NoPost]
    /\ err = [t \in Ticks |-> None]
    /\ result = NoResult
    /\ hist = [j \in Jobs |-> NoHist]
    /\ published = [j \in Jobs |-> 0]
    /\ open = [j \in Jobs |-> FALSE]
    /\ terminalSeen = [j \in Jobs |-> FALSE]
    /\ done = [t \in Ticks |-> {}]
    /\ slept = [t \in Ticks |-> NoSleep]

InitIn(envs) ==
    /\ env \in envs
    /\ db \in [TableIds(env) -> InitRow]
    /\ JobIdle
    /\ retry = NoRetry
    /\ backoff = NoBackoff
    /\ query = NoQuery
    /\ server = NoServer

Init == InitIn(Environments)

Terminal(row) ==
    /\ row.status = "failed"
    /\ HasKey(row.metadata, "retryCount")
    /\ row.metadata.retryCount = MAX_RETRIES

\* the history variables that follow a write of job j
Written(j, opens) ==
    /\ open' = [open EXCEPT ![j] = opens]
    /\ terminalSeen' = [terminalSeen EXCEPT ![j] = @ \/ Terminal(db'[j])]

\* the loop of callback t has got the result of a processScheduledPost call:
\* it is kept while the loop has posts left
Recorded(t) ==
    done' = [done EXCEPT ![t] = IF batch[t] = <<>> THEN {} ELSE @ \cup {result'}]

\* -------------------------------------------------------------- actions
\* time passes
AdvanceClock ==
    /\ now < MaxTime
    /\ now' = now + 1
    /\ result' = NoResult
    /\ UNCHANGED <<db, pc, batch, cur, xpost, err, hist, published, open,
                   terminalSeen, done, slept, env>>
    /\ UNCHANGED utilVars

\* a callback whose findAll rejection is not caught
FetchRejectedHalts(t) ==
    /\ pc' = [pc EXCEPT ![t] = "crashed"]
    /\ UNCHANGED <<batch, cur, slept>>

\* findAll rejects: the outer catch logs the error and the callback returns
FetchRejected(t) == UNCHANGED <<batch, pc, cur, slept>>

\* cron fires the callback; it runs the query and enters the loop.  A callback
\* takes the lowest free slot; without overlap it starts only when no other
\* callback runs.
CronTick(t) ==
    /\ pc[t] = "idle"
    /\ \A u \in Ticks : u < t => pc[u] # "idle"
    /\ env.overlap \/ \A u \in Ticks : pc[u] = "idle"
    /\ \E ok \in ReadOutcomes :
         IF ok
         THEN /\ \E s \in FindAll(db, now) : Proceed(t, s)
              /\ result' = NoResult
         ELSE /\ FetchRejected(t)
              /\ result' = FetchFailed(t)
    /\ UNCHANGED <<db, now, xpost, err, hist, published, open, terminalSeen,
                   done, env>>
    /\ UNCHANGED utilVars

\* const delay = calculateExponentialBackoff(retryCount - 1); await sleep(delay)
BackoffSleep(t) ==
    /\ pc[t] = "sleep"
    /\ slept' = [slept EXCEPT ![t] = BackoffAttempt(cur[t].retryCount)]
    /\ pc' = [pc EXCEPT ![t] = "mark"]
    /\ result' = NoResult
    /\ UNCHANGED <<db, now, batch, cur, xpost, err, hist, published, open,
                   terminalSeen, done, env>>
    /\ UNCHANGED utilVars

\* post.status = 'processing'; await post.save()
SaveProcessing(t) ==
    /\ pc[t] = "mark"
    /\ LET j == cur[t].id IN
       \E ok \in SaveOutcomes :
         IF ok
         THEN /\ db' = [db EXCEPT ![j].status = "processing"]
              /\ hist' = LogWrite(j, "processing", RetryCountOf(db'[j].metadata))
              /\ Written(j, TRUE)
              /\ pc' = [pc EXCEPT ![t] = "exec_find"]
              /\ UNCHANGED err
         ELSE /\ err' = [err EXCEPT ![t] = StoreErrMsg]
              /\ pc' = [pc EXCEPT ![t] = "catch"]
              /\ UNCHANGED <<db, hist, open, terminalSeen>>
    /\ result' = NoResult
    /\ UNCHANGED <<now, batch, cur, xpost, published, done, slept, env>>
    /\ UNCHANGED utilVars

\* findByPk found no row (null)
NoRow == [status |-> None]

\* a guard that stops only at a published post
SkippedIfPublished(post) == post.status = "published"

\* if (!post || post.status !== 'pending')
Skipped(post) == post = NoRow \/ post.status # "pending"

\* executeScheduledPost: findByPk and the status guard
ExecFindByPk(t) ==
    /\ pc[t] = "exec_find"
    /\ LET j == cur[t].id
           post == IF j \in DOMAIN db THEN db[j] ELSE NoRow
       IN
       \E ok \in ReadOutcomes :
         IF ~ok
         THEN \* findByPk rejects outside the executor's try
              /\ err' = [err EXCEPT ![t] = ReadErrMsg]
              /\ hist' = LogExec(j, "threw")
              /\ pc' = [pc EXCEPT ![t] = "catch"]
              /\ result' = NoResult
              /\ UNCHANGED <<xpost, cur, batch, done, slept>>
         ELSE IF Skipped(post)
         THEN \* return null: processScheduledPost logs success and returns
              /\ hist' = LogExec(j, "null")
              /\ result' = Returned(t, j)
              /\ Recorded(t)
              /\ Proceed(t, batch[t])
              /\ UNCHANGED <<err, xpost>>
         ELSE /\ xpost' = [xpost EXCEPT ![t] =
                      [id |-> j,
                       retryCount |-> RetryCountOf(db[j].metadata),
                       configured |-> db[j].configured,
                       err |-> None, fbError |-> FALSE,
                       unsaved |-> FALSE,
                       publishedContentId |-> None, publishedAt |-> NoTime]]
              /\ pc' = [pc EXCEPT ![t] = "exec_mark"]
              /\ result' = NoResult
              /\ UNCHANGED <<err, hist, cur, batch, done, slept>>
    /\ UNCHANGED <<db, now, published, open, terminalSeen, env>>
    /\ UNCHANGED utilVars

\* executeScheduledPost: post.status = 'processing'; await post.save(); then
\* the account check
ExecSaveProcessing(t) ==
    /\ pc[t] = "exec_mark"
    /\ LET j == xpost[t].id IN
       \E ok \in SaveOutcomes :
         IF ok
         THEN /\ db' = [db EXCEPT ![j].status = "processing"]
              /\ Written(j, open[j])
              /\ UNCHANGED hist
              /\ IF xpost[t].configured
                 THEN /\ pc' = [pc EXCEPT ![t] = "exec_publish"]
                      /\ UNCHANGED xpost
                 ELSE /\ xpost' = [xpost EXCEPT ![t].err = CfgErrMsg]
                      /\ pc' = [pc EXCEPT ![t] = "exec_catch"]
         ELSE /\ xpost' = [xpost EXCEPT ![t].err = StoreErrMsg]
              /\ pc' = [pc EXCEPT ![t] = "exec_catch"]
              /\ UNCHANGED <<db, hist, open, terminalSeen>>
    /\ result' = NoResult
    /\ UNCHANGED <<now, batch, cur, err, published, done, slept, env>>
    /\ UNCHANGED utilVars

\* await FacebookService.publishPost(...)
ExecPublish(t) ==
    /\ pc[t] = "exec_publish"
    /\ LET j == xpost[t].id IN
       \E ok \in BOOLEAN :
         IF ok
         THEN /\ published' = [published EXCEPT ![j] = @ + 1]
              /\ xpost' = [xpost EXCEPT ![t].publishedContentId = FbContentId]
              /\ pc' = [pc EXCEPT ![t] = "exec_save_published"]
         ELSE /\ xpost' = [xpost EXCEPT ![t].err = FbErrMsg,
                                        ![t].fbError = TRUE]
              /\ pc' = [pc EXCEPT ![t] = "exec_catch"]
              /\ UNCHANGED published
    /\ result' = NoResult
    /\ UNCHANGED <<db, now, batch, cur, err, hist, open, terminalSeen,
                   done, slept, env>>
    /\ UNCHANGED utilVars

\* post.status = 'published'; publishedContentId; publishedAt; await post.save()
ExecSavePublished(t) ==
    /\ pc[t] = "exec_save_published"
    /\ LET j == xpost[t].id IN
       \E ok \in SaveOutcomes :
         IF ok
         THEN /\ db' = [db EXCEPT ![j].status = "published",
                                  ![j].publishedContentId = xpost[t].publishedContentId,
                                  ![j].publishedAt = now]
              /\ hist' = LogExec(j, "post")
              /\ Written(j, FALSE)
              /\ xpost' = [xpost EXCEPT ![t] = NoPost]
              /\ result' = Returned(t, j)
              /\ Recorded(t)
              /\ Proceed(t, batch[t])
         ELSE /\ xpost' = [xpost EXCEPT ![t].err = StoreErrMsg,
                                        ![t].unsaved = TRUE,
                                        ![t].publishedAt = now]
              /\ pc' = [pc EXCEPT ![t] = "exec_catch"]
              /\ result' = NoResult
              /\ UNCHANGED <<db, hist, cur, batch, open, terminalSeen, done,
                             slept>>
    /\ UNCHANGED <<now, err, published, env>>
    /\ UNCHANGED utilVars

\* the executor's catch: status = 'failed'; errorMessage; await post.save();
\* then rethrow (a FacebookAPIError as it is, anything else wrapped)
ExecCatchSave(t) ==
    /\ pc[t] = "exec_catch"
    /\ LET j == xpost[t].id
           x == xpost[t]
       IN
       \E ok \in SaveOutcomes :
         IF ok
         THEN \* save() writes the fields changed since the last successful save
              /\ db' = [db EXCEPT
                      ![j].status = "failed",
                      ![j].errorMessage = x.err,
                      ![j].publishedContentId =
                          IF x.unsaved THEN x.publishedContentId ELSE @,
                      ![j].publishedAt =
                          IF x.unsaved THEN x.publishedAt ELSE @]
              /\ Written(j, FALSE)
              /\ err' = [err EXCEPT ![t] =
                      IF x.fbError THEN x.err ELSE ExecErrPrefix \o x.err]
         ELSE \* the save's own rejection leaves the catch block
              /\ err' = [err EXCEPT ![t] = StoreErrMsg]
              /\ UNCHANGED <<db, open, terminalSeen>>
    /\ hist' = LogExec(xpost[t].id, "threw")
    /\ xpost' = [xpost EXCEPT ![t] = NoPost]
    /\ pc' = [pc EXCEPT ![t] = "catch"]
    /\ result' = NoResult
    /\ UNCHANGED <<now, batch, cur, published, done, slept, env>>
    /\ UNCHANGED utilVars

\* a catch that does not count the attempt
SameRetryCount(retryCount) == retryCount

\* what processScheduledPost's catch assigns before its save
NewRetryCount(retryCount) == retryCount + 1

WillRetry(newRetryCount) == newRetryCount < MAX_RETRIES

RetryMeta(post, newRetryCount, message, at) ==
    [retryCount |-> newRetryCount, lastError |-> message, lastRetryAt |-> at]
        @@ Spread(post.metadata)

FinalMeta(post, newRetryCount, message, at) ==
    [retryCount |-> newRetryCount, finalError |-> message, failedAt |-> at]
        @@ Spread(post.metadata)

\* the metadata keys the write-back assigns
KeysSet(newRetryCount) ==
    IF WillRetry(newRetryCount)
    THEN {"retryCount", "lastError", "lastRetryAt"}
    ELSE {"retryCount", "finalError", "failedAt"}

FailureRow(row, post, message, at) ==
    LET newRetryCount == NewRetryCount(post.retryCount) IN
    IF WillRetry(newRetryCount)
    THEN [row EXCEPT !.status = "pending",
                     !.metadata = RetryMeta(post, newRetryCount, message, at)]
    ELSE [row EXCEPT !.status = "failed",
                     !.errorMessage = message,
                     !.metadata = FinalMeta(post, newRetryCount, message, at)]

\* processScheduledPost's catch: the write-back, then throw ScheduledPostError,
\* which the loop's catch logs before it goes on
CatchSave(t) ==
    /\ pc[t] = "catch"
    /\ LET j == cur[t].id
           newRetryCount == NewRetryCount(cur[t].retryCount)
       IN
       \E ok \in SaveOutcomes :
         IF ok
         THEN /\ db' = [db EXCEPT ![j] = FailureRow(@, cur[t], err[t], now)]
              /\ hist' = LogWrite(j, db'[j].status, RetryCountOf(db'[j].metadata))
              /\ Written(j, FALSE)
              /\ result' = ThrewScheduledPostError(t, j, newRetryCount)
         ELSE /\ result' = ThrewStoreError(t, j)
              /\ UNCHANGED <<db, hist, open, terminalSeen>>
    /\ err' = [err EXCEPT ![t] = None]
    /\ Recorded(t)
    /\ Proceed(t, batch[t])
    /\ UNCHANGED <<now, xpost, published, env>>
    /\ UNCHANGED utilVars

Next ==
    \/ AdvanceClock
    \/ \E t \in Ticks : CronTick(t)
    \/ \E t \in Ticks : BackoffSleep(t)
    \/ \E t \in Ticks : SaveProcessing(t)
    \/ \E t \in Ticks : ExecFindByPk(t)
    \/ \E t \in Ticks : ExecSaveProcessing(t)
    \/ \E t \in Ticks : ExecPublish(t)
    \/ \E t \in Ticks : ExecSavePublished(t)
    \/ \E t \in Ticks : ExecCatchSave(t)
    \/ \E t \in Ticks : CatchSave(t)

Spec == Init /\ [][Next]_vars

\* The steps of one cron callback.
TickStep(t) ==
    \/ CronTick(t)
    \/ BackoffSleep(t)
    \/ SaveProcessing(t)
    \/ ExecFindByPk(t)
    \/ ExecSaveProcessing(t)
    \/ ExecPublish(t)
    \/ ExecSavePublished(t)
    \/ ExecCatchSave(t)
    \/ CatchSave(t)

\* Time passes, cron keeps firing, and every await of a callback settles.
Fairness == WF_vars(AdvanceClock) /\ \A t \in Ticks : WF_vars(TickStep(t))

\* The runs in which every save succeeds, under fair scheduling.
FairSpec ==
    /\ InitIn({e \in Environments : e.faults # "saves"})
    /\ [][Next]_vars
    /\ Fairness

\* ------------------------- utils/retry: calculateExponentialBackoff
MaxAttemptIndex == 6
\* Math.random() is k / JitterSteps for a k in 0..JitterSteps-1
JitterSteps == 4

\* Delays are in milliseconds; the function's result, which is no whole
\* number, is kept in units of 1/JitterScale ms.
JitterScale == 10 * JitterSteps

\* baseDelay: the default and the values the callers pass; maxDelay: the
\* default and a lower cap
BaseDelays == {1000, 1500, 2000}
MaxDelays == {30000, 8000}

\* a jitter that shortens the delay
JitterBelow(delay, k) == 0 - k * delay

\* an exponential term that does not grow
FlatDelay(attempt, baseDelay, maxDelay) == Min(baseDelay, maxDelay)

\* Math.min(baseDelay * Math.pow(2, attempt), maxDelay)
CappedDelay(attempt, baseDelay, maxDelay) == Min(baseDelay * 2^attempt, maxDelay)

\* Math.random() * 0.1 * delay, in units of 1/JitterScale ms
JitterOf(delay, k) == k * delay

\* delay + jitter, in units of 1/JitterScale ms
CalculateExponentialBackoff(attempt, baseDelay, maxDelay, k) ==
    LET delay == CappedDelay(attempt, baseDelay, maxDelay)
        jitter == JitterOf(delay, k)
    IN  delay * JitterScale + jitter

BackoffCalls ==
    [pc : {"call"},
     attempt : 0..MaxAttemptIndex,
     baseDelay : BaseDelays,
     maxDelay : MaxDelays,
     random : 0..(JitterSteps - 1),
     delay : {0}]

BackoffInit ==
    /\ env = [overlap |-> FALSE, faults |-> "none"]
    /\ db = <<>>
    /\ JobIdle
    /\ retry = NoRetry
    /\ backoff \in BackoffCalls
    /\ query = NoQuery
    /\ server = NoServer

Backoff ==
    /\ backoff.pc = "call"
    /\ backoff' = [backoff EXCEPT
           !.pc = "done",
           !.delay = CalculateExponentialBackoff(backoff.attempt,
                         backoff.baseDelay, backoff.maxDelay, backoff.random)]
    /\ UNCHANGED <<jobVars, retry, query, server>>

BackoffSpec == BackoffInit /\ [][Backoff]_vars

\* ------------------------------------ utils/retry: retryWithBackoff
MaxAttempts == 3

OkValue == "value"
OperationName == "Facebook API call"
ErrorMessages ==
    {"request timed out",
     "getaddrinfo ENOTFOUND graph.facebook.com",
     "connect ECONNREFUSED 127.0.0.1:5432"}

\* what one invocation of fn does
Resolves == [ok |-> TRUE, value |-> OkValue]
Rejects(message) == [ok |-> FALSE, message |-> message]
FnOutcomes == {Resolves} \cup {Rejects(m) : m \in ErrorMessages}

\* how the retryWithBackoff call ended
NoOutcome == [kind |-> None]
Resolved(value) == [kind |-> "resolved", value |-> value]
Rejected(message) == [kind |-> "rejected", message |-> message]

\* String.prototype.includes
Includes(message, signature) ==
    \E i \in 1..(Len(message) - Len(signature) + 1) :
        SubSeq(message, i, i + Len(signature) - 1) = signature

\* the condition of the throw in the catch: a || b && c is a || (b && c)
NonRetriable(message, attempt, maxAttempts) ==
    \/ Includes(message, "ENOTFOUND")
    \/ /\ Includes(message, "ECONNREFUSED")
       /\ attempt = maxAttempts - 1

\* `${operationName} failed after ${maxAttempts} attempts: ${lastError?.message}`
AggregateMessage(operationName, maxAttempts, message) ==
    operationName \o " failed after " \o ToString(maxAttempts)
        \o " attempts: " \o message

\* a loop that runs once more
MoreAttemptsInclusive(attempt, maxAttempts) == attempt + 1 <= maxAttempts

\* attempt++; attempt < maxAttempts
MoreAttempts(attempt, maxAttempts) == attempt + 1 < maxAttempts

\* a sleep computed from the default baseDelay
SleepArgsDefault(attempt, baseDelay) ==
    [attempt |-> attempt - 1, baseDelay |-> 1000]

\* calculateExponentialBackoff(attempt - 1, baseDelay): the arguments passed
SleepArgs(attempt, baseDelay) ==
    [attempt |-> attempt - 1, baseDelay |-> baseDelay]

\* a call retryWithBackoff(fn, maxAttempts, operationName, baseDelay), at its
\* first attempt; fn[i] is what the i-th invocation of fn does; sleeps
\* (history) are the sleeps so far, each with the number of invocations made
\* before it
RetryCalls ==
    [pc : {"call"},
     fn : [1..MaxAttempts -> FnOutcomes],
     maxAttempts : 1..MaxAttempts,
     operationName : {OperationName},
     baseDelay : BaseDelays,
     attempt : {0},
     calls : {0},
     sleeps : {<<>>},
     lastError : {None},
     outcome : {NoOutcome}]

RetryInit ==
    /\ env = [overlap |-> FALSE, faults |-> "none"]
    /\ db = <<>>
    /\ JobIdle
    /\ retry \in RetryCalls
    /\ backoff = NoBackoff
    /\ query = NoQuery
    /\ server = NoServer

\* attempt > 0: await sleep(calculateExponentialBackoff(attempt - 1, baseDelay))
RetrySleep ==
    /\ retry.pc = "sleep"
    /\ retry' = [retry EXCEPT
           !.pc = "call",
           !.sleeps = Append(@, [args |-> SleepArgs(retry.attempt, retry.baseDelay),
                                 after |-> retry.calls])]
    /\ UNCHANGED <<jobVars, backoff, query, server>>

\* return await fn(), and the catch block when it rejects; after the last
\* attempt the loop ends and the aggregate error is thrown
RetryCall ==
    /\ retry.pc = "call"
    /\ LET o == retry.fn[retry.calls + 1] IN
       IF o.ok
       THEN retry' = [retry EXCEPT !.calls = @ + 1,
                                   !.pc = "done",
                                   !.outcome = Resolved(o.value)]
       ELSE IF NonRetriable(o.message, retry.attempt, retry.maxAttempts)
       THEN retry' = [retry EXCEPT !.calls = @ + 1,
                                   !.lastError = o.message,
                                   !.pc = "done",
                                   !.outcome = Rejected(o.message)]
       ELSE IF MoreAttempts(retry.attempt, retry.maxAttempts)
       THEN retry' = [retry EXCEPT !.calls = @ + 1,
                                   !.lastError = o.message,
                                   !.attempt = @ + 1,
                                   !.pc = "sleep"]
       ELSE retry' = [retry EXCEPT !.calls = @ + 1,
                                   !.lastError = o.message,
                                   !.attempt = @ + 1,
                                   !.pc = "done",
                                   !.outcome = Rejected(AggregateMessage(
                                       retry.operationName, retry.maxAttempts,
                                       o.message))]
    /\ UNCHANGED <<jobVars, backoff, query, server>>

RetryNext == RetrySleep \/ RetryCall

RetrySpec == RetryInit /\ [][RetryNext]_vars

\* the i-th invocation of fn ends the call: it resolves, or its error is
\* rethrown as it is
Stops(call, i) ==
    \/ call.fn[i].ok
    \/ NonRetriable(call.fn[i].message, i - 1, call.maxAttempts)

\* fn rejects on every invocation
AlwaysFails(fn) == \A i \in DOMAIN fn : ~fn[i].ok
\* fn rejects on the invocations before the k-th and resolves on the k-th
FirstSuccess(fn, k) == fn[k].ok /\ \A i \in 1..(k - 1) : ~fn[i].ok

\* --------------------------------------------------------- startServer
DatabaseAttempts == 5
DatabaseBaseDelay == 2000
RedisAttempts == 5
RedisBaseDelay == 1000

\* retryWithBackoff(fn, maxAttempts, operationName, baseDelay) at its first
\* attempt
ConnectCall(fn, maxAttempts, operationName, baseDelay) ==
    [pc |-> "call", fn |-> fn, maxAttempts |-> maxAttempts,
     operationName |-> operationName, baseDelay |-> baseDelay,
     attempt |-> 0, calls |-> 0, sleeps |-> <<>>, lastError |-> None,
     outcome |-> NoOutcome]

\* connectDatabaseWithRetry(), for every way sequelize.authenticate() can go
ConnectDatabaseWithRetry ==
    {ConnectCall(fn, DatabaseAttempts, "Database connection", DatabaseBaseDelay) :
        fn \in [1..DatabaseAttempts -> FnOutcomes]}

\* connectRedisWithRetry(), for every way connectRedis() can go
ConnectRedisWithRetry ==
    {ConnectCall(fn, RedisAttempts, "Redis connection", RedisBaseDelay) :
        fn \in [1..RedisAttempts -> FnOutcomes]}

\* a connection not yet attempted
NotTried == [kind |-> None, calls |-> 0]
\* how a connect...WithRetry call ended, and after how many invocations
Ended(call) == [kind |-> call.outcome.kind, calls |-> call.calls]

NoExit == 0 - 1

\* a catch that logs the error and lets the startup go on
ExitIgnored(s, code) == [s EXCEPT !.pc = "jobs"]

\* process.exit(code): nothing runs afterwards
Exit(s, code) == [s EXCEPT !.pc = "exited", !.exitCode = code]

\* startServer() has called connectDatabaseWithRetry()
StartInit ==
    /\ env = [overlap |-> FALSE, faults |-> "none"]
    /\ db = <<>>
    /\ JobIdle
    /\ backoff = NoBackoff
    /\ query = NoQuery
    /\ retry \in ConnectDatabaseWithRetry
    /\ server = [pc |-> "database", database |-> NotTried, redis |-> NotTried,
                 scheduler |-> FALSE, listening |-> FALSE, exitCode |-> NoExit]

\* await connectDatabaseWithRetry() resolves
DatabaseConnected ==
    /\ server.pc = "database"
    /\ retry.pc = "done"
    /\ retry.outcome.kind = "resolved"
    /\ server' = [server EXCEPT !.pc = "sync", !.database = Ended(retry)]
    /\ UNCHANGED <<jobVars, retry, backoff, query>>

\* await sequelize.sync({ alter: true }); then connectRedisWithRetry() is
\* called; a rejection goes to the catch of startServer
Sync ==
    /\ server.pc = "sync"
    /\ \E ok \in BOOLEAN :
         IF ok
         THEN /\ server' = [server EXCEPT !.pc = "redis"]
              /\ retry' \in ConnectRedisWithRetry
         ELSE /\ server' = Exit(server, 1)
              /\ UNCHANGED retry
    /\ UNCHANGED <<jobVars, backoff, query>>

\* await connectRedisWithRetry() resolves
RedisConnected ==
    /\ server.pc = "redis"
    /\ retry.pc = "done"
    /\ retry.outcome.kind = "resolved"
    /\ server' = [server EXCEPT !.pc = "jobs", !.redis = Ended(retry)]
    /\ UNCHANGED <<jobVars, retry, backoff, query>>

\* a connect...WithRetry call rejects: the catch of startServer logs the
\* error and calls process.exit(1)
ConnectFailed ==
    /\ server.pc \in {"database", "redis"}
    /\ retry.pc = "done"
    /\ retry.outcome.kind = "rejected"
    /\ server' = Exit(IF server.pc = "database"
                      THEN [server EXCEPT !.database = Ended(retry)]
                      ELSE [server EXCEPT !.redis = Ended(retry)], 1)
    /\ UNCHANGED <<jobVars, retry, backoff, query>>

\* try { startScheduledPostsJob() } catch: the startup goes on either way
StartJobs ==
    /\ server.pc = "jobs"
    /\ \E ok \in BOOLEAN :
         server' = [server EXCEPT !.pc = "listen", !.scheduler = ok]
    /\ UNCHANGED <<jobVars, retry, backoff, query>>

\* app.listen(PORT, ...)
Listen ==
    /\ server.pc = "listen"
    /\ server' = [server EXCEPT !.pc = "running", !.listening = TRUE]
    /\ UNCHANGED <<jobVars, retry, backoff, query>>

StartNext ==
    \/ RetrySleep
    \/ RetryCall
    \/ DatabaseConnected
    \/ Sync
    \/ RedisConnected
    \/ ConnectFailed
    \/ StartJobs
    \/ Listen

StartSpec == StartInit /\ [][StartNext]_vars

\* ------------------------------- the cron callback: its query and its loop
MaxRows == 12

\* the ids S in ascending or in descending order
RECURSIVE InOrder(_, _)
InOrder(S, descending) ==
    IF S = {} THEN <<>>
    ELSE LET first == CHOOSE x \in S :
                          \A y \in S : IF descending THEN y <= x ELSE x <= y
         IN  <<first>> \o InOrder(S \ {first}, descending)

\* a callback about to run its query: rows are the ids of the rows that match
\* the where clause, in the order the store presents them
QueryRuns ==
    {[pc |-> "fetch", rows |-> InOrder(S, d), posts |-> <<>>, processed |-> <<>>] :
        S \in SUBSET (1..MaxRows), d \in BOOLEAN}

QueryInit ==
    /\ env = [overlap |-> FALSE, faults |-> "none"]
    /\ db = <<>>
    /\ JobIdle
    /\ retry = NoRetry
    /\ backoff = NoBackoff
    /\ query \in QueryRuns
    /\ server = NoServer

\* const posts = await ScheduledPost.findAll({where, limit: 10})
QueryFetch ==
    /\ query.pc = "fetch"
    /\ query' = [query EXCEPT !.pc = "loop",
                              !.posts = Limit(query.rows, BatchLimit)]
    /\ UNCHANGED <<jobVars, retry, backoff, server>>

\* one turn of for (const post of posts): processScheduledPost(post) is
\* awaited, and whether it returns or throws the loop goes on
QueryProcess ==
    /\ query.pc = "loop"
    /\ query.posts # <<>>
    /\ query' = [query EXCEPT !.processed = Append(@, Head(query.posts)),
                              !.posts = Tail(@)]
    /\ UNCHANGED <<jobVars, retry, backoff, server>>

\* the loop has no post left: the callback returns
QueryReturn ==
    /\ query.pc = "loop"
    /\ query.posts = <<>>
    /\ query' = [query EXCEPT !.pc = "done"]
    /\ UNCHANGED <<jobVars, retry, backoff, server>>

QueryNext == QueryFetch \/ QueryProcess \/ QueryReturn

QuerySpec == QueryInit /\ [][QueryNext]_vars

\* ------------------------------------------------- used by the properties
Range(seq) == {seq[i] : i \in DOMAIN seq}

\* the instances callback t holds: the one in work and those still to come
Held(t) == (IF pc[t] = "idle" THEN {} ELSE {cur[t]}) \cup Range(batch[t])

\* callback t has just run its query (CronTick with a non-empty result)
Fetched(t) == pc[t] = "idle" /\ pc'[t] # "idle"
\* the posts of that result, in the order returned
FetchedPosts(t) == <<cur'[t]>> \o batch'[t]

\* a processScheduledPost call ended in this step
CallEnded == result'.kind \in {"returned", "threw"}

\* the loop of callback t ends with this step, and how its calls ended
LoopEnds(t) == pc[t] # "idle" /\ pc'[t] = "idle"
LoopResults(t) == done[t] \cup {result'}

\* the call of callback t that ends with this step met a rejected post.save()
SaveFailed(t) ==
    \/ err[t] \in {StoreErrMsg, ExecErrPrefix \o StoreErrMsg}
    \/ result'.error = "StoreError"

\* callback t is inside executeScheduledPost
InExec(t) ==
    pc[t] \in {"exec_find", "exec_mark", "exec_publish", "exec_save_published",
               "exec_catch"}

\* the (status, retryCount) values processScheduledPost persisted for job j
JobWrites(j) == hist[j].writes

\* how the executeScheduledPost calls for job j ended
ExecOutcomes(j) == hist[j].execs

IsPrefix(s, full) ==
    /\ Len(s) <= Len(full)
    /\ \A i \in 1..Len(s) : s[i] = full[i]

InWork(j) == \E t \in Ticks : pc[t] # "idle" /\ cur[t].id = j

\* ------------------------------------------------------------ the claims
\* C1: when processScheduledPost returns for a job that was fetched 'pending',
\* whose account is configured, in a run where every save succeeds, the
\* job's persisted status is 'published' and publishedContentId and publishedAt
\* are set.
C1_PublishedOnReturn ==
    [][(/\ result'.kind = "returned"
        /\ env.faults # "saves"
        /\ cur[result'.by].status = "pending"
        /\ db[result'.postId].configured)
       => /\ db'[result'.postId].status = "published"
          /\ db'[result'.postId].publishedContentId # None
          /\ db'[result'.postId].publishedAt # NoTime]_vars

\* C2: in a run where every save succeeds, whenever processScheduledPost ends
\* for a job, by returning or by throwing, the job's persisted status is not
\* 'processing'.
C2_NotProcessingWhenDone ==
    [][(CallEnded /\ env.faults # "saves")
       => db'[result'.postId].status # "processing"]_vars

\* C3: every job that is 'pending' and due eventually is 'published' or
\* terminally 'failed' (retryCount = MAX_RETRIES), in the runs where every save
\* succeeds and the callbacks are scheduled fairly.
C3_DueJobSettles ==
    \A j \in Jobs :
        (j \in DOMAIN db /\ db[j].status = "pending" /\ db[j].scheduledFor <= now)
            ~> (j \in DOMAIN db
                /\ (db[j].status = "published" \/ Terminal(db[j])))

\* C4: the persisted retryCount never exceeds MAX_RETRIES, and a job whose
\* retryCount is MAX_RETRIES has status 'failed'.
C4_RetryCountBounded ==
    \A j \in DOMAIN db :
        /\ RetryCountOf(db[j].metadata) <= MAX_RETRIES
        /\ RetryCountOf(db[j].metadata) = MAX_RETRIES => db[j].status = "failed"

\* C5: when an attempt that read retry count r fails and the write-back
\* succeeds (processScheduledPost throws ScheduledPostError), the persisted
\* retryCount is r + 1; if r + 1 < MAX_RETRIES the status is 'pending' and
\* lastError and lastRetryAt are recorded, otherwise the status is 'failed' and
\* finalError, failedAt and errorMessage are recorded.  When callbacks do not
\* overlap, r is also the retryCount persisted before the write-back.
C5_FailureWriteBack ==
    [][(result'.kind = "threw" /\ result'.error = "ScheduledPostError")
       => LET t == result'.by
              j == result'.postId
              r == cur[t].retryCount
              row == db'[j]
          IN  /\ HasKey(row.metadata, "retryCount")
              /\ row.metadata.retryCount = r + 1
              /\ result'.retryCount = r + 1
              /\ ~env.overlap => RetryCountOf(db[j].metadata) = r
              /\ IF r + 1 < MAX_RETRIES
                 THEN /\ row.status = "pending"
                      /\ HasKey(row.metadata, "lastError")
                      /\ row.metadata.lastError = err[t]
                      /\ HasKey(row.metadata, "lastRetryAt")
                      /\ row.metadata.lastRetryAt = now
                 ELSE /\ row.status = "failed"
                      /\ HasKey(row.metadata, "finalError")
                      /\ row.metadata.finalError = err[t]
                      /\ HasKey(row.metadata, "failedAt")
                      /\ row.metadata.failedAt = now
                      /\ row.errorMessage = err[t]]_vars

\* a third failed attempt has just been written back as terminal
C5_TerminalWriteBackDone ==
    /\ result.kind = "threw"
    /\ result.error = "ScheduledPostError"
    /\ result.retryCount = MAX_RETRIES
    /\ db[result.postId].status = "failed"
    /\ HasKey(db[result.postId].metadata, "lastError")
    /\ HasKey(db[result.postId].metadata, "finalError")

\* the writes of the scenario of C6
ThreeFailures ==
    << <<"processing", 0>>, <<"pending", 1>>, <<"processing", 1>>,
       <<"pending", 2>>, <<"processing", 2>>, <<"failed", MAX_RETRIES>> >>

\* C6: for a job whose first three executor calls fail, in a run where every
\* save succeeds, the (status, retryCount) values processScheduledPost persists
\* are processing, pending(1), processing, pending(2), processing, failed(3),
\* in this order, and nothing is written for the job afterwards.
C6_ThreeFailuresSequence ==
    \A j \in DOMAIN db :
        (env.faults # "saves" /\ ExecOutcomes(j) = <<"threw", "threw", "threw">>)
            => /\ IsPrefix(JobWrites(j), ThreeFailures)
               /\ ~InWork(j) => JobWrites(j) = ThreeFailures

\* C7: a job that has been 'failed' with retryCount = MAX_RETRIES is not
\* returned by the query of any later tick (so no later tick holds it or
\* writes it).
C7_TerminalNeverFetched ==
    /\ \A j \in DOMAIN db : Terminal(db[j]) => j \notin EligibleJobs(db, now)
    /\ \A t \in Ticks : \A p \in Held(t) : ~p.late

\* C8: every job a tick's query puts in the batch is, at that moment, due
\* (scheduledFor <= now) and either 'pending' or 'failed' with
\* retryCount < MAX_RETRIES.
C8_BatchEligible ==
    [][\A t \in Ticks :
         Fetched(t) =>
           \A i \in DOMAIN FetchedPosts(t) :
             LET row == db[FetchedPosts(t)[i].id] IN
             /\ row.scheduledFor <= now
             /\ \/ row.status = "pending"
                \/ /\ row.status = "failed"
                   /\ RetryCountOf(row.metadata) < MAX_RETRIES]_vars

\* a callback works on a batch while a pending job that is not yet due is in
\* no batch
C8_FutureJobLeftOut ==
    /\ \E t \in Ticks : pc[t] # "idle"
    /\ \E j \in DOMAIN db :
         /\ db[j].status = "pending"
         /\ db[j].scheduledFor > now
         /\ \A t \in Ticks : \A p \in Held(t) : p.id # j

\* C9: the batch a tick fetches is ordered by scheduledFor ascending.
C9_BatchOrdered ==
    [][\A t \in Ticks :
         Fetched(t) =>
           LET s == FetchedPosts(t) IN
           \A a, b \in DOMAIN s :
             a < b => db[s[a].id].scheduledFor <= db[s[b].id].scheduledFor]_vars

\* C10: for one job, processScheduledPost never writes 'processing' while an
\* earlier 'processing' write has no later write, and no two callbacks are
\* inside executeScheduledPost for the same job at once.
C10_OneAttemptAtATime ==
    [][/\ \A t \in Ticks :
            (pc[t] = "mark" /\ pc'[t] = "exec_find") => ~open[cur[t].id]
       /\ \A t, u \in Ticks :
            (t # u /\ InExec(t)' /\ InExec(u)') => cur'[t].id # cur'[u].id]_vars

\* C11: when a processScheduledPost call of a batch ends, by returning or by
\* throwing, the loop goes on with the next job of the batch; and when the loop
\* of a batch in which some job's processing threw ends, every job of the batch
\* whose processing returned has been written 'published'.
C11_BatchIsolation ==
    [][\A t \in Ticks :
         /\ (CallEnded /\ result'.by = t /\ batch[t] # <<>>)
                => (pc'[t] # "idle" /\ cur'[t].id = Head(batch[t]).id)
         /\ (LoopEnds(t) /\ \E o \in LoopResults(t) : o.kind = "threw")
                => \A o \in LoopResults(t) :
                     o.kind = "returned" => db'[o.postId].status = "published"]_vars

\* C12: when a processScheduledPost call in which a post.save() was rejected
\* ends, the job's persisted status and retryCount are those the tick fetched
\* (in the runs whose callbacks do not overlap, those at the start of the tick).
C12_SaveFailureKeepsState ==
    [][\A t \in Ticks :
         (/\ result'.kind = "threw"
          /\ result'.by = t
          /\ ~env.overlap
          /\ SaveFailed(t))
         => /\ db'[cur[t].id].status = cur[t].status
            /\ RetryCountOf(db'[cur[t].id].metadata) = cur[t].retryCount]_vars

\* C13: when the findAll of a tick rejects, the callback returns (it is idle
\* again, with no post in work), and nothing but the record of that outcome
\* changes: no job is modified, and the next tick starts from the state this
\* one started from.
C13_FetchFailureCaught ==
    [][\A t \in Ticks :
         (result'.kind = "caught" /\ result'.by = t)
         => /\ pc'[t] = "idle"
            /\ batch'[t] = <<>>
            /\ UNCHANGED <<db, now, pc, batch, cur, xpost, err, hist, published,
                           open, terminalSeen, done>>]_vars

\* a tick's fetch has just failed while a job was due, and the job is still
\* there for the next tick
C13_FetchFailedJobStillDue ==
    /\ result.kind = "caught"
    /\ pc[result.by] = "idle"
    /\ EligibleJobs(db, now) # {}

\* C14: a retryWithBackoff call whose fn rejects on every invocation, whatever
\* the messages, ends after exactly maxAttempts invocations, rejected with
\* '<operationName> failed after <maxAttempts> attempts: <last message>'.
C14_RetryExhaustion ==
    (retry.pc = "done" /\ AlwaysFails(retry.fn))
        => /\ retry.calls = retry.maxAttempts
           /\ retry.outcome =
                Rejected(AggregateMessage(retry.operationName, retry.maxAttempts,
                                          retry.fn[retry.maxAttempts].message))

\* C15: a retryWithBackoff call whose fn rejects on invocations 1..k-1,
\* whatever the messages, and resolves on invocation k <= maxAttempts ends
\* resolved with fn's value after exactly k invocations.
C15_EarlySuccess ==
    \A k \in 1..MaxAttempts :
        (/\ retry.pc = "done"
         /\ k <= retry.maxAttempts
         /\ FirstSuccess(retry.fn, k))
        => /\ retry.outcome = Resolved(OkValue)
           /\ retry.calls = k

\* C16: in retryWithBackoff a rejection of fn on an attempt before the last,
\* whatever its message, is followed by another attempt.
C16_SignaturesOnlyOnFinalAttempt ==
    [][(/\ retry.pc = "call"
        /\ ~retry.fn[retry.calls + 1].ok
        /\ retry.attempt < retry.maxAttempts - 1)
       => retry'.pc = "sleep"]_vars

\* C17: the result of calculateExponentialBackoff(a, base, max) is at least
\* min(base * 2^a, max) and at most 1.1 times that value, hence at most
\* 1.1 * max, for every jitter draw.
C17_BackoffRange ==
    backoff.pc = "done"
        => LET capped == Min(backoff.baseDelay * 2^backoff.attempt,
                             backoff.maxDelay)
           IN  /\ backoff.delay >= capped * JitterScale
               /\ 10 * backoff.delay <= 11 * capped * JitterScale
               /\ 10 * backoff.delay <= 11 * backoff.maxDelay * JitterScale

\* a capped delay with a jitter above zero has been computed
C17_CappedWithJitter ==
    /\ backoff.pc = "done"
    /\ backoff.baseDelay * 2^backoff.attempt > backoff.maxDelay
    /\ backoff.delay > backoff.maxDelay * JitterScale

\* C18 as amended: for all attempt indices a2 > a1 >= 0 and every jitter draw,
\* calculateExponentialBackoff(a2, base, max) >= min(base * 2^a1, max).
C18_MonotoneUpToCap ==
    backoff.pc = "done"
        => \A a1 \in 0..(backoff.attempt - 1) :
             backoff.delay >=
                 Min(backoff.baseDelay * 2^a1, backoff.maxDelay) * JitterScale

\* a delay has been computed for an index whose predecessor is beyond the cap
C18_BeyondCap ==
    /\ backoff.pc = "done"
    /\ backoff.attempt >= 1
    /\ backoff.baseDelay * 2^(backoff.attempt - 1) > backoff.maxDelay

\* C18 as stated: for all attempt indices a2 > a1 >= 0 and every jitter draw,
\* calculateExponentialBackoff(a2, base, max) >= base * 2^a1.
C18_MonotoneUncapped ==
    backoff.pc = "done"
        => \A a1 \in 0..(backoff.attempt - 1) :
             backoff.delay >= backoff.baseDelay * 2^a1 * JitterScale

\* C19: for each job, FacebookService.publishPost completes successfully at
\* most once.
C19_PublishedAtMostOnce ==
    \A j \in Jobs : published[j] <= 1

\* C20: a job has an errorMessage only if its status is 'failed' and its
\* retryCount is MAX_RETRIES.
C20_ErrorMessageOnlyTerminal ==
    \A j \in DOMAIN db : db[j].errorMessage # None => Terminal(db[j])

\* C21: when executeScheduledPost publishes a job and its 'published' save
\* succeeds, the persisted record carries no error data any more: errorMessage
\* is empty and the metadata has no lastError.
C21_PublishClearsErrors ==
    [][\A t \in Ticks :
         (/\ pc[t] = "exec_save_published"
          /\ result'.kind = "returned"
          /\ result'.by = t)
         => LET row == db'[result'.postId] IN
            /\ row.status = "published"
            /\ row.errorMessage = None
            /\ ~HasKey(row.metadata, "lastError")]_vars

\* C22: a cron callback makes at most 10 processScheduledPost calls, however
\* many rows match its query: it processes the first min(10, #matching) rows
\* the store presents, each once.
C22_AtMostTenPerTick ==
    query.pc # "none"
        => /\ Len(query.processed) <= 10
           /\ Len(query.processed) + Len(query.posts) <= 10
           /\ IsPrefix(query.processed, query.rows)
           /\ query.pc = "done"
                => Len(query.processed) = Min(10, Len(query.rows))

\* a callback whose query matched more than 10 rows has returned after 10 calls
C22_MoreMatchedThanProcessed ==
    /\ query.pc = "done"
    /\ Len(query.rows) > 10
    /\ Len(query.processed) = 10

\* C23: within one callback the posts of the batch are processed one after
\* another in the order fetched: while a processScheduledPost call of the
\* callback has not ended, its post in work and its posts left do not change;
\* when the call ends, the next call starts (at its sleep or its 'processing'
\* write) on the first post left, or the callback returns if none is left; and
\* the callback is inside executeScheduledPost only for its post in work.
C23_OneAfterAnother ==
    [][\A t \in Ticks :
         LET ended == CallEnded /\ result'.by = t IN
         /\ (pc[t] # "idle" /\ ~ended)
                => (cur'[t] = cur[t] /\ batch'[t] = batch[t] /\ pc'[t] # "idle")
         /\ ended
                => /\ result'.postId = cur[t].id
                   /\ IF batch[t] = <<>>
                      THEN pc'[t] = "idle"
                      ELSE /\ cur'[t].id = Head(batch[t]).id
                           /\ batch'[t] = Tail(batch[t])
                           /\ pc'[t] \in {"sleep", "mark"}
         /\ (InExec(t)' /\ xpost'[t] # NoPost) => xpost'[t].id = cur'[t].id]_vars

\* a callback works on a later post of its batch, after the call for an earlier
\* one has ended
C23_SecondPostInWork ==
    \E t \in Ticks :
        /\ InExec(t)
        /\ done[t] # {}
        /\ \A o \in done[t] : o.postId # cur[t].id

\* C24: a processScheduledPost call on a post fetched with retryCount k > 0
\* starts with one sleep of calculateExponentialBackoff(k - 1), during which
\* nothing is written, and writes 'processing' and calls the executor only
\* after it; a call with k = 0 writes 'processing' without a sleep; and a sleep
\* begins only where a call starts, never after the write-back of a failure in
\* the same call.
C24_LazyBackoff ==
    [][\A t \in Ticks :
         LET k == cur[t].retryCount IN
         /\ (pc[t] = "sleep" /\ pc'[t] # "sleep")
                => /\ k > 0
                   /\ pc'[t] = "mark"
                   /\ slept[t] = NoSleep
                   /\ slept'[t] = k - 1
                   /\ db' = db
         /\ (pc[t] = "mark" /\ pc'[t] # "mark")
                => slept[t] = (IF k > 0 THEN k - 1 ELSE NoSleep)
         /\ (InExec(t) \/ pc[t] = "catch")
                => slept[t] = (IF k > 0 THEN k - 1 ELSE NoSleep)
         /\ (pc'[t] = "sleep" /\ pc[t] # "sleep")
                => /\ cur'[t].retryCount > 0
                   /\ pc[t] = "idle" \/ (CallEnded /\ result'.by = t)
                   /\ pc[t] # "idle" => cur'[t].id # cur[t].id
         /\ (pc'[t] = "mark" /\ pc[t] \notin {"mark", "sleep"})
                => cur'[t].retryCount = 0]_vars

\* a retried post (retryCount 2) is being written 'processing' after its sleep
C24_SleptBeforeRetry ==
    \E t \in Ticks :
        /\ pc[t] \in {"mark", "exec_find"}
        /\ cur[t].retryCount = 2
        /\ slept[t] = 1

\* C25: in a retryWithBackoff call the i-th sleep (i >= 1) comes after exactly
\* i invocations of fn, so immediately before the invocation with 0-based
\* index i, and is a sleep of calculateExponentialBackoff(i - 1, baseDelay);
\* there is no sleep before the first invocation and none after the last one.
C25_SleepBeforeEachRetry ==
    retry.pc # "none"
        => /\ \A i \in DOMAIN retry.sleeps :
                retry.sleeps[i] =
                    [args |-> [attempt |-> i - 1, baseDelay |-> retry.baseDelay],
                     after |-> i]
           /\ retry.pc = "call" => Len(retry.sleeps) = retry.calls
           /\ retry.pc = "sleep" => Len(retry.sleeps) = retry.calls - 1
           /\ retry.pc = "done" => Len(retry.sleeps) = retry.calls - 1

\* a call with baseDelay 2000 has ended after three failed invocations and two
\* sleeps
C25_TwoSleepsThreeCalls ==
    /\ retry.pc = "done"
    /\ retry.baseDelay = 2000
    /\ retry.calls = 3
    /\ retry.outcome.kind = "rejected"
    /\ Len(retry.sleeps) = 2

\* C26: when the write-back of a failed attempt of job j, fetched with retry
\* count r, succeeds, processScheduledPost throws a ScheduledPostError with
\* postId = j and retryCount = r + 1, the count just persisted; the loop's catch
\* changes nothing: after the step the table differs from the one before only
\* in the row of j, which is the row of the write-back, and the callback goes
\* on with its next post or returns.
C26_FailureSignalled ==
    [][\A t \in Ticks :
         LET j == cur[t].id
             r == cur[t].retryCount
         IN
         /\ (pc[t] = "catch" /\ pc'[t] # "catch" /\ db' # db)
                => result' = ThrewScheduledPostError(t, j, r + 1)
         /\ (result'.kind = "threw" /\ result'.by = t
                  /\ result'.error = "ScheduledPostError")
                => /\ pc[t] = "catch"
                   /\ result'.postId = j
                   /\ result'.retryCount = r + 1
                   /\ RetryCountOf(db'[j].metadata) = result'.retryCount
                   /\ db'[j] = FailureRow(db[j], cur[t], err[t], now)
                   /\ \A k \in DOMAIN db \ {j} : db'[k] = db[k]
                   /\ pc'[t] \in {"idle", "sleep", "mark"}
                   /\ pc'[t] # "idle" => cur'[t].id # j]_vars

\* a callback has caught the ScheduledPostError of one post and works on the
\* next post of its batch
C26_CaughtAndWentOn ==
    /\ result.kind = "threw"
    /\ result.error = "ScheduledPostError"
    /\ result.retryCount = 1
    /\ pc[result.by] # "idle"
    /\ cur[result.by].id # result.postId

C28_InvocationsBounded ==
    [][retry.pc # "none"
        => /\ retry.calls <= retry.maxAttempts
           /\ retry'.calls <= retry.maxAttempts
           /\ retry'.calls \in {retry.calls, retry.calls + 1}
           /\ retry.pc = "done" => retry' = retry
           /\ retry'.pc = "done"
                => /\ retry'.calls >= 1
                   /\ \A i \in 1..(retry'.calls - 1) : ~Stops(retry, i)
                   /\ retry'.calls < retry.maxAttempts => Stops(retry, retry'.calls)]_vars

\* a call has ended on its second invocation, which resolved, with an attempt
\* to spare
C28_StoppedAfterSuccess ==
    /\ retry.pc = "done"
    /\ retry.maxAttempts = 3
    /\ retry.calls = 2
    /\ retry.outcome.kind = "resolved"

\* C29: the write-back of a failed attempt keeps every metadata key of the
\* post it does not assign, with its value, and adds no key but those it
\* assigns; the post is the instance the attempt works on, whose metadata are
\* the persisted ones when callbacks do not overlap.  Of the other fields only
\* status and, in the terminal write, errorMessage change.
C29_WriteBackKeepsMetadata ==
    [][\A t \in Ticks :
         (result'.kind = "threw" /\ result'.by = t
              /\ result'.error = "ScheduledPostError")
         => LET j == cur[t].id
                before == cur[t].metadata
                keys == IF IsNull(before) THEN {} ELSE DOMAIN before
                after == db'[j].metadata
                set == KeysSet(cur[t].retryCount + 1)
            IN  /\ ~IsNull(after)
                /\ DOMAIN after = keys \cup set
                /\ \A k \in keys \ set : after[k] = before[k]
                /\ ~env.overlap => before = db[j].metadata
                /\ db'[j].scheduledFor = db[j].scheduledFor
                /\ db'[j].configured = db[j].configured
                /\ db'[j].publishedContentId = db[j].publishedContentId
                /\ db'[j].publishedAt = db[j].publishedAt
                /\ WillRetry(cur[t].retryCount + 1)
                     => db'[j].errorMessage = db[j].errorMessage]_vars

\* a terminal write has kept the keys of the creation and of the earlier retry
C29_TerminalKeepsEarlierKeys ==
    /\ result.kind = "threw"
    /\ result.error = "ScheduledPostError"
    /\ LET m == db[result.postId].metadata IN
       /\ DOMAIN m = {"trendId", "predictedScore", "retryCount", "lastError",
                      "lastRetryAt", "finalError", "failedAt"}
       /\ m.trendId = CreatedMeta.trendId
       /\ m.predictedScore = CreatedMeta.predictedScore

\* C30: startServer starts the scheduled-posts job and the listener only when
\* connectDatabaseWithRetry and, after it, connectRedisWithRetry have each
\* resolved within 5 invocations; and when either of them rejects, the next
\* thing that happens is the exit of the process with code 1, after which
\* neither the job nor the listener is started.
C30_StartAfterConnections ==
    [][/\ (server'.pc \in {"jobs", "listen", "running"}
              \/ server'.scheduler \/ server'.listening)
            => /\ server'.database.kind = "resolved"
               /\ server'.database.calls \in 1..5
               /\ server'.redis.kind = "resolved"
               /\ server'.redis.calls \in 1..5
       /\ server'.redis.kind # None => server'.database.kind = "resolved"
       /\ server'.pc \in {"sync", "redis"}
            => /\ server'.database.kind = "resolved"
               /\ server'.redis.kind = None
       /\ (retry.pc = "done" /\ retry.outcome.kind = "rejected")
            => /\ server'.pc = "exited"
               /\ server'.exitCode = 1
       /\ server'.pc = "exited"
            => /\ server'.exitCode = 1
               /\ ~server'.scheduler
               /\ ~server'.listening
       /\ server.pc = "exited" => server' = server]_vars

\* the server runs, after a database connection that took three invocations
\* and a Redis connection that took two
C30_RunningAfterRetries ==
    /\ server.pc = "running"
    /\ server.scheduler
    /\ server.listening
    /\ server.database = [kind |-> "resolved", calls |-> 3]
    /\ server.redis = [kind |-> "resolved", calls |-> 2]
====
